---- MODULE Spec2Model ----
(***************************************************************************)
(* The game-session synchronisation state machine of the chess client:     *)
(* the ChessGame component (its state, its initialize effect, the click    *)
(* handler, the move submission and its settlement), the ChessBoard        *)
(* presentation function, and the NewGameForm component of the home page,  *)
(* which creates a game and navigates to the game page.                    *)
(*                                                                         *)
(* Strings the code slices or concatenates (squares, move tokens, the API  *)
(* URL) are sequences of one-character strings, so that slice(), length    *)
(* and template concatenation are computed as the code computes them.      *)
(*                                                                         *)
(* The rules engine (chess.js) is an external collaborator.  It is         *)
(* modelled on the full 8x8 board from the standard starting arrangement   *)
(* with the movement rules of every piece, captures and promotion; check,  *)
(* castling and en passant are left out.  chess.move() is modelled as the  *)
(* code reads it: it yields a falsy value for a move it cannot apply.      *)
(***************************************************************************)
EXTENDS Integers, Sequences, FiniteSets, TLC

(***************************************************************************)
(* Bounds of the model.                                                    *)
(***************************************************************************)
\* Longest move history explored in one session.
MaxPlies == 4
\* How many times the initialize effect runs in one component lifetime.
MaxSessions == 2

(***************************************************************************)
(* Small helpers.                                                          *)
(***************************************************************************)
Abs(x) == IF x < 0 THEN -x ELSE x

Max(x, y) == IF x < y THEN y ELSE x

Min(x, y) == IF x < y THEN x ELSE y

Sign(x) == IF x < 0 THEN -1 ELSE IF x > 0 THEN 1 ELSE 0

\* JavaScript String.prototype.slice(a, b) for 0 <= a <= b.
Slice(str, a, b) == SubSeq(str, a + 1, Min(b, Len(str)))

\* JS null / undefined / "" for a square or a token.
Null == <<>>

\* JS null for the error field.
NoError == "null"

(***************************************************************************)
(* Squares and pieces.                                                     *)
(***************************************************************************)
FILES == <<"a", "b", "c", "d", "e", "f", "g", "h">>

RankChars == <<"1", "2", "3", "4", "5", "6", "7", "8">>

\* `${file}${rank}`
SquareName(f, r) == <<FILES[f], RankChars[r]>>

Squares == {SquareName(f, r) : f \in 1..8, r \in 1..8}

FileIndex == [c \in {FILES[f] : f \in 1..8} |-> CHOOSE f \in 1..8 : FILES[f] = c]

RankIndex ==
  [c \in {RankChars[r] : r \in 1..8} |-> CHOOSE r \in 1..8 : RankChars[r] = c]

FileOf(sq) == FileIndex[sq[1]]

RankOf(sq) == RankIndex[sq[2]]

NoPiece == [color |-> "-", type |-> "-"]

Piece(c, t) == [color |-> c, type |-> t]

BackRank == <<"r", "n", "b", "q", "k", "b", "n", "r">>

Other(c) == IF c = "w" THEN "b" ELSE "w"

\* JS undefined for a move's promotion.
NoPromo == "-"

(***************************************************************************)
(* The rules engine: position, legal moves, move, undo, reset, history.    *)
(***************************************************************************)
StartBoard ==
  [sq \in Squares |->
     LET f == FileOf(sq)
         r == RankOf(sq)
     IN  CASE r = 1 -> Piece("w", BackRank[f])
           [] r = 2 -> Piece("w", "p")
           [] r = 7 -> Piece("b", "p")
           [] r = 8 -> Piece("b", BackRank[f])
           [] OTHER -> NoPiece]

\* new Chess() and chess.reset()
NewChess == [board |-> StartBoard, turn |-> "w", hist |-> <<>>]

PathClear(b, from, to) ==
  LET f1 == FileOf(from)
      r1 == RankOf(from)
      df == FileOf(to) - f1
      dr == RankOf(to) - r1
      n  == Max(Abs(df), Abs(dr))
  IN  \A k \in 1..(n - 1) :
        b[SquareName(f1 + k * Sign(df), r1 + k * Sign(dr))] = NoPiece

CanReach(b, from, to) ==
  LET p  == b[from]
      t  == b[to]
      f1 == FileOf(from)
      r1 == RankOf(from)
      df == FileOf(to) - f1
      dr == RankOf(to) - r1
      dir == IF p.color = "w" THEN 1 ELSE -1
      home == IF p.color = "w" THEN 2 ELSE 7
  IN  /\ from # to
      /\ p # NoPiece
      /\ t.color # p.color
      /\ CASE p.type = "p" ->
                \/ df = 0 /\ dr = dir /\ t = NoPiece
                \/ /\ df = 0 /\ dr = 2 * dir /\ r1 = home /\ t = NoPiece
                   /\ b[SquareName(f1, r1 + dir)] = NoPiece
                \/ Abs(df) = 1 /\ dr = dir /\ t # NoPiece
           [] p.type = "n" -> {Abs(df), Abs(dr)} = {1, 2}
           [] p.type = "k" -> Max(Abs(df), Abs(dr)) = 1
           [] p.type = "b" -> Abs(df) = Abs(dr) /\ PathClear(b, from, to)
           [] p.type = "r" -> (df = 0 \/ dr = 0) /\ PathClear(b, from, to)
           [] p.type = "q" ->
                /\ (df = 0 \/ dr = 0 \/ Abs(df) = Abs(dr))
                /\ PathClear(b, from, to)
           [] OTHER -> FALSE

Promotions(b, from, to) ==
  IF b[from].type = "p" /\ RankOf(to) \in {1, 8}
  THEN {"q", "r", "b", "n"}
  ELSE {NoPromo}

Upper(t) ==
  CASE t = "n" -> "N" [] t = "b" -> "B" [] t = "r" -> "R"
    [] t = "q" -> "Q" [] t = "k" -> "K" [] OTHER -> t

\* Standard notation of a move, without disambiguation and check marks.
San(b, from, to, promo) ==
  LET p   == b[from]
      cap == b[to] # NoPiece
  IN  (IF p.type = "p"
       THEN (IF cap THEN <<from[1], "x">> ELSE <<>>)
       ELSE <<Upper(p.type)>> \o (IF cap THEN <<"x">> ELSE <<>>))
      \o to
      \o (IF promo # NoPromo THEN <<"=", Upper(promo)>> ELSE <<>>)

\* A verbose move object of the engine.
MoveObject(b, from, to, promo) ==
  [color |-> b[from].color, piece |-> b[from].type, from |-> from, to |-> to,
   captured |-> b[to], promotion |-> promo, san |-> San(b, from, to, promo)]

\* JS null for a move object.
NoMove ==
  [color |-> "-", piece |-> "-", from |-> Null, to |-> Null,
   captured |-> NoPiece, promotion |-> NoPromo, san |-> Null]

\* Moves to every other square, whatever the piece and the occupants.
MovesFromAnywhere(ch, from) ==
  IF from \notin Squares \/ ch.board[from].color # ch.turn
  THEN {}
  ELSE {MoveObject(ch.board, from, to, NoPromo) : to \in Squares \ {from}}

\* chess.moves({ square, verbose: true })
MovesFrom(ch, from) ==
  IF from \notin Squares \/ ch.board[from].color # ch.turn
  THEN {}
  ELSE UNION {{MoveObject(ch.board, from, to, pr) :
                 pr \in Promotions(ch.board, from, to)} :
              to \in {t \in Squares : CanReach(ch.board, from, t)}}

ApplyMove(ch, m) ==
  [board |-> [ch.board EXCEPT
                ![m.from] = NoPiece,
                ![m.to] = IF m.promotion # NoPromo
                          THEN Piece(m.color, m.promotion)
                          ELSE Piece(m.color, m.piece)],
   turn  |-> Other(ch.turn),
   hist  |-> Append(ch.hist, m)]

\* chess.move applying whatever it is given, legal or not.
ChessMoveUnchecked(ch, from, to, promo) ==
  IF from \in Squares /\ to \in Squares /\ from # to
  THEN LET m == MoveObject(ch.board, from, to, NoPromo)
       IN  [move |-> m, chess |-> ApplyMove(ch, m)]
  ELSE [move |-> NoMove, chess |-> ch]

\* chess.move recording the promotion designator on every move.
ChessMoveKeepsDesignator(ch, from, to, promo) ==
  IF /\ from \in Squares
     /\ to \in Squares
     /\ ch.board[from].color = ch.turn
     /\ CanReach(ch.board, from, to)
  THEN LET m == MoveObject(ch.board, from, to, promo)
       IN  [move |-> m, chess |-> ApplyMove(ch, m)]
  ELSE [move |-> NoMove, chess |-> ch]

\* chess.move({ from, to, promotion }): the move object and the new position,
\* or NoMove and the position unchanged.  The legal move from `from` to `to`
\* is looked up; a promotion designator is matched only against promotion
\* moves.
ChessMove(ch, from, to, promo) ==
  IF /\ from \in Squares
     /\ to \in Squares
     /\ ch.board[from].color = ch.turn
     /\ CanReach(ch.board, from, to)
     /\ (Promotions(ch.board, from, to) = {NoPromo}
         \/ promo \in Promotions(ch.board, from, to))
  THEN LET m == MoveObject(ch.board, from, to,
                           IF Promotions(ch.board, from, to) = {NoPromo}
                           THEN NoPromo
                           ELSE promo)
       IN  [move |-> m, chess |-> ApplyMove(ch, m)]
  ELSE [move |-> NoMove, chess |-> ch]

\* chess.undo(): takes back the last move of the position, if any.
ChessUndo(ch) ==
  IF ch.hist = <<>>
  THEN ch
  ELSE LET m == ch.hist[Len(ch.hist)]
       IN  [board |-> [ch.board EXCEPT ![m.from] = Piece(m.color, m.piece),
                                       ![m.to] = m.captured],
            turn  |-> m.color,
            hist  |-> SubSeq(ch.hist, 1, Len(ch.hist) - 1)]

\* chess.history()
SanHistory(ch) == [i \in 1..Len(ch.hist) |-> ch.hist[i].san]

\* chess.board(): rows from rank 8 down to rank 1, columns from file a to h.
BoardRows(ch) ==
  [row \in 0..7 |-> [col \in 0..7 |-> ch.board[SquareName(col + 1, 8 - row)]]]


(***************************************************************************)
(* Inputs of the environment: props, clicks, responses of the authority.   *)
(***************************************************************************)
\* Values of the apiUrl prop (process.env.API_URL ?? ... ?? "").
ApiUrls == {<<>>, <<"/">>, <<"h", "/">>}

\* Values of the gameId route parameter (a route segment is never empty).
GameIds == {"g1", "g2"}

E2E4 == <<"e", "2", "e", "4">>

E7E5 == <<"e", "7", "e", "5">>

G1F3 == <<"g", "1", "f", "3">>

\* A well-formed token no position of the model can apply.
E2E5 == <<"e", "2", "e", "5">>

\* A token whose origin is no square.
Z9E5 == <<"z", "9", "e", "5">>

\* A token whose destination is no square.
E7Z9 == <<"e", "7", "z", "9">>

\* Values of the initialMove search parameter.
InitialMoves == {Null, E2E4, E2E5}

\* Values of payload.move in a move response.
AuthorityTokens == {Null, E7E5, G1F3, E2E5, Z9E5, E7Z9}

\* payload.status missing from the response.
NoStatus == "undefined"

\* Values of payload.status in a move response.
ResponseStatuses == {"in_progress", "checkmate", NoStatus}

\* The squares the user clicks.
ClickSquares ==
  {<<"e", "2">>, <<"e", "4">>, <<"g", "1">>, <<"f", "3">>,
   <<"e", "7">>, <<"e", "5">>, <<"d", "4">>}

\* How a submission settles: the response is not ok, the fetch (or the
\* parsing of its body) throws, or the response is ok and carries a payload.
Responses ==
  {[kind |-> "rejected", move |-> Null, status |-> NoStatus],
   [kind |-> "failed", move |-> Null, status |-> NoStatus]}
  \cup {[kind |-> "accepted", move |-> m, status |-> s] :
          m \in AuthorityTokens, s \in ResponseStatuses}

\* How a game creation settles; handleStart reads gameId and move of the
\* payload.
CreateResponses ==
  {[kind |-> "rejected", gameId |-> "", move |-> Null],
   [kind |-> "failed", gameId |-> "", move |-> Null]}
  \cup {[kind |-> "accepted", gameId |-> g, move |-> m] :
          g \in GameIds, m \in InitialMoves}

RejectedMessage == "The move was rejected by the server."

\* err.message of the error a failed fetch throws.
TransportMessage == "Failed to fetch"

EngineMoveError == "Failed to apply engine move. Please refresh the page."

(***************************************************************************)
(* State.                                                                  *)
(***************************************************************************)
VARIABLES
  apiUrl, gameId, playerColor, initialEngineMove,   \* props
  chess,                \* chessRef.current
  gameStatus, error, isSubmittingMove, selectedSquare, availableTargets,
  lastMove, history,    \* useState cells
  requests,             \* move submissions awaiting their response
  session,              \* how many times the initialize effect has run
  attempt,              \* the state before this session's last move attempt
  confirmedLen,         \* length of the history the authority has confirmed
  desynced,             \* an authority move of this session failed to apply
  absorbed,             \* this session processed a response of an earlier one
  last,                 \* the operation that produced this state
  page,                 \* the page shown: "home" (NewGameForm) or "game"
  selectedSide, isStarting, formError,   \* useState cells of NewGameForm
  createRequests,       \* game creations awaiting their response
  formLast,             \* the operation of the form that produced this state
  codecIn, codecOut     \* a move or token given to the token codec, and
                        \* what the codec made of it

vars ==
  <<apiUrl, gameId, playerColor, initialEngineMove, chess, gameStatus, error,
    isSubmittingMove, selectedSquare, availableTargets, lastMove, history,
    requests, session, attempt, confirmedLen, desynced, absorbed, last,
    page, selectedSide, isStarting, formError, createRequests, formLast,
    codecIn, codecOut>>

\* The variables of the token codec's round trips.
codecVars == <<codecIn, codecOut>>

\* The variables of the home page's form.
formVars ==
  <<page, selectedSide, isStarting, formError, createRequests, formLast>>

\* The component's state as one value.
State ==
  [chess |-> chess, gameStatus |-> gameStatus, error |-> error,
   isSubmittingMove |-> isSubmittingMove, selectedSquare |-> selectedSquare,
   availableTargets |-> availableTargets, lastMove |-> lastMove,
   history |-> history]

SetState(st) ==
  /\ chess' = st.chess
  /\ gameStatus' = st.gameStatus
  /\ error' = st.error
  /\ isSubmittingMove' = st.isSubmittingMove
  /\ selectedSquare' = st.selectedSquare
  /\ availableTargets' = st.availableTargets
  /\ lastMove' = st.lastMove
  /\ history' = st.history

Props ==
  [gameId |-> gameId, playerColor |-> playerColor,
   initialEngineMove |-> initialEngineMove]

\* (apiUrl ?? "").replace(/\/$/, "")
NormalizedApiUrl(url) ==
  IF Len(url) > 0 /\ url[Len(url)] = "/"
  THEN SubSeq(url, 1, Len(url) - 1)
  ELSE url

NoLastMove == [from |-> Null, to |-> Null]

\* The useState initialisers.
InitialState(url) ==
  [chess |-> NewChess, gameStatus |-> "in_progress",
   error |-> IF NormalizedApiUrl(url) # <<>> THEN NoError
             ELSE "API_URL is not set.",
   isSubmittingMove |-> FALSE, selectedSquare |-> Null,
   availableTargets |-> {}, lastMove |-> NoLastMove, history |-> <<>>]

(***************************************************************************)
(* The component's functions, as functions of the state they update.       *)
(***************************************************************************)
\* syncBoardState without its update of the last move.
SyncBoardStateKeepsLastMove(st) ==
  [st EXCEPT !.history = SanHistory(st.chess)]

SyncBoardState(st) ==
  LET verboseHistory == st.chess.hist
  IN  [st EXCEPT
         !.lastMove =
           IF Len(verboseHistory) = 0
           THEN NoLastMove
           ELSE [from |-> verboseHistory[Len(verboseHistory)].from,
                 to |-> verboseHistory[Len(verboseHistory)].to],
         !.history = SanHistory(st.chess)]

CreateMoveToken(move) ==
  move.from \o move.to
  \o (IF move.promotion = NoPromo THEN <<>> ELSE <<move.promotion>>)

\* The decoding without the promotion letter.
DecodeTokenNoPromotion(notation) ==
  [from |-> Slice(notation, 0, 2),
   to |-> Slice(notation, 2, 4),
   promotion |-> NoPromo]

\* The arguments applyEngineMove gives to chess.move.
DecodeToken(notation) ==
  [from |-> Slice(notation, 0, 2),
   to |-> Slice(notation, 2, 4),
   promotion |-> IF Len(notation) = 5 THEN notation[5] ELSE NoPromo]

\* Whether chess.move applies the token to the position.
EngineMoveApplies(ch, notation) ==
  LET d == DecodeToken(notation)
  IN  ChessMove(ch, d.from, d.to, d.promotion).move # NoMove

\* applyEngineMove taking back the last move when the move cannot be applied.
ApplyEngineMoveUndoes(st, notation) ==
  LET d == DecodeToken(notation)
      r == ChessMove(st.chess, d.from, d.to, d.promotion)
  IN  IF r.move = NoMove
      THEN SyncBoardState([st EXCEPT !.chess = ChessUndo(st.chess),
                                     !.error = EngineMoveError])
      ELSE SyncBoardState([st EXCEPT !.chess = r.chess])

\* applyEngineMove that reports no error when the move cannot be applied.
ApplyEngineMoveSilent(st, notation) ==
  LET d == DecodeToken(notation)
      r == ChessMove(st.chess, d.from, d.to, d.promotion)
  IN  IF r.move = NoMove
      THEN st
      ELSE SyncBoardState([st EXCEPT !.chess = r.chess])

ApplyEngineMove(st, notation) ==
  LET d == DecodeToken(notation)
      r == ChessMove(st.chess, d.from, d.to, d.promotion)
  IN  IF r.move = NoMove
      THEN [st EXCEPT !.error = EngineMoveError]
      ELSE SyncBoardState([st EXCEPT !.chess = r.chess])

\* The initialize effect without chess.reset().
InitializeEffectNoReset(st, pr, url) ==
  LET st0 == [st EXCEPT !.selectedSquare = Null,
                        !.availableTargets = {}, !.lastMove = NoLastMove,
                        !.history = <<>>, !.gameStatus = "in_progress"]
  IN  IF pr.gameId = ""
      THEN [st0 EXCEPT !.error = "Game is not ready."]
      ELSE IF NormalizedApiUrl(url) = <<>>
      THEN [st0 EXCEPT !.error = "API_URL is not set."]
      ELSE IF pr.playerColor = "b" /\ pr.initialEngineMove # Null
      THEN ApplyEngineMove(st0, pr.initialEngineMove)
      ELSE SyncBoardState(st0)

\* The initialize effect without its reset of the selection and the
\* candidate set.
InitializeEffectKeepsSelection(st, pr, url) ==
  LET st0 == [st EXCEPT !.chess = NewChess, !.lastMove = NoLastMove,
                        !.history = <<>>, !.gameStatus = "in_progress"]
  IN  IF pr.gameId = ""
      THEN [st0 EXCEPT !.error = "Game is not ready."]
      ELSE IF NormalizedApiUrl(url) = <<>>
      THEN [st0 EXCEPT !.error = "API_URL is not set."]
      ELSE IF pr.playerColor = "b" /\ pr.initialEngineMove # Null
      THEN ApplyEngineMove(st0, pr.initialEngineMove)
      ELSE SyncBoardState(st0)

\* The initialize effect.
InitializeEffect(st, pr, url) ==
  LET st0 == [st EXCEPT !.chess = NewChess, !.selectedSquare = Null,
                        !.availableTargets = {}, !.lastMove = NoLastMove,
                        !.history = <<>>, !.gameStatus = "in_progress"]
  IN  IF pr.gameId = ""
      THEN [st0 EXCEPT !.error = "Game is not ready."]
      ELSE IF NormalizedApiUrl(url) = <<>>
      THEN [st0 EXCEPT !.error = "API_URL is not set."]
      ELSE IF pr.playerColor = "b" /\ pr.initialEngineMove # Null
      THEN ApplyEngineMove(st0, pr.initialEngineMove)
      ELSE SyncBoardState(st0)

\* sendMoveToServer without setError(null).
SendMoveToServerKeepsError(st, pr, url, move) ==
  IF pr.gameId = "" \/ NormalizedApiUrl(url) = <<>>
  THEN [st |-> [st EXCEPT !.error = "Game is not ready. Start a new one."],
        sent |-> FALSE, token |-> Null]
  ELSE [st |-> [st EXCEPT !.isSubmittingMove = TRUE],
        sent |-> TRUE, token |-> CreateMoveToken(move)]

\* sendMoveToServer without its guard on the game and the service location.
SendMoveToServerUnguarded(st, pr, url, move) ==
  [st |-> [st EXCEPT !.isSubmittingMove = TRUE, !.error = NoError],
   sent |-> TRUE, token |-> CreateMoveToken(move)]

\* sendMoveToServer up to its await: the state it leaves, whether a request
\* was issued, and the token the request carries.
SendMoveToServer(st, pr, url, move) ==
  IF pr.gameId = "" \/ NormalizedApiUrl(url) = <<>>
  THEN [st |-> [st EXCEPT !.error = "Game is not ready. Start a new one."],
        sent |-> FALSE, token |-> Null]
  ELSE [st |-> [st EXCEPT !.isSubmittingMove = TRUE, !.error = NoError],
        sent |-> TRUE, token |-> CreateMoveToken(move)]

\* The guard without its test of the side to move.
ClickIgnoredNoTurn(st, pr) ==
  \/ pr.gameId = ""
  \/ st.gameStatus # "in_progress"
  \/ st.isSubmittingMove

\* The guard without its test of the pending flag.
ClickIgnoredNoPending(st, pr) ==
  \/ pr.gameId = ""
  \/ st.gameStatus # "in_progress"
  \/ st.chess.turn # pr.playerColor

\* The guard of handleSquareClick: the click is dropped.
ClickIgnored(st, pr) ==
  \/ pr.gameId = ""
  \/ st.gameStatus # "in_progress"
  \/ st.chess.turn # pr.playerColor
  \/ st.isSubmittingMove

NotSent(st, kind) == [st |-> st, kind |-> kind, sent |-> FALSE, token |-> Null]

\* handleSquareClick leaving the candidate set when the selection is
\* cleared by a second click on the selected square.
HandleSquareClickKeepsTargets(st, pr, url, square) ==
  IF ClickIgnored(st, pr)
  THEN NotSent(st, "ignored")
  ELSE
    LET piece == st.chess.board[square]
    IN  IF piece # NoPiece /\ piece.color = pr.playerColor
        THEN IF st.selectedSquare = square
             THEN NotSent([st EXCEPT !.selectedSquare = Null], "deselect")
             ELSE NotSent([st EXCEPT
                             !.selectedSquare = square,
                             !.availableTargets =
                               {m.to : m \in MovesFrom(st.chess, square)}],
                          "select")
        ELSE IF st.selectedSquare = Null
        THEN NotSent(st, "noselection")
        ELSE
          LET r == ChessMove(st.chess, st.selectedSquare, square, "q")
          IN  IF r.move = NoMove
              THEN NotSent(st, "illegal")
              ELSE
                LET st1 == SyncBoardState(
                             [st EXCEPT !.chess = r.chess,
                                        !.selectedSquare = Null,
                                        !.availableTargets = {}])
                    s == SendMoveToServer(st1, pr, url, r.move)
                IN  [st |-> s.st,
                     kind |-> IF s.sent THEN "moved" ELSE "unsent",
                     sent |-> s.sent, token |-> s.token]

\* handleSquareClick selecting whatever square is clicked.
HandleSquareClickSelectsAny(st, pr, url, square) ==
  IF ClickIgnored(st, pr)
  THEN NotSent(st, "ignored")
  ELSE IF st.selectedSquare = square
  THEN NotSent([st EXCEPT !.selectedSquare = Null,
                          !.availableTargets = {}], "deselect")
  ELSE NotSent([st EXCEPT
                  !.selectedSquare = square,
                  !.availableTargets =
                    {m.to : m \in MovesFrom(st.chess, square)}],
               "select")

HandleSquareClick(st, pr, url, square) ==
  IF ClickIgnored(st, pr)
  THEN NotSent(st, "ignored")
  ELSE
    LET piece == st.chess.board[square]
    IN  IF piece # NoPiece /\ piece.color = pr.playerColor
        THEN IF st.selectedSquare = square
             THEN NotSent([st EXCEPT !.selectedSquare = Null,
                                     !.availableTargets = {}], "deselect")
             ELSE NotSent([st EXCEPT
                             !.selectedSquare = square,
                             !.availableTargets =
                               {m.to : m \in MovesFrom(st.chess, square)}],
                          "select")
        ELSE IF st.selectedSquare = Null
        THEN NotSent(st, "noselection")
        ELSE
          LET r == ChessMove(st.chess, st.selectedSquare, square, "q")
          IN  IF r.move = NoMove
              THEN NotSent(st, "illegal")
              ELSE
                LET st1 == SyncBoardState(
                             [st EXCEPT !.chess = r.chess,
                                        !.selectedSquare = Null,
                                        !.availableTargets = {}])
                    s == SendMoveToServer(st1, pr, url, r.move)
                IN  [st |-> s.st,
                     kind |-> IF s.sent THEN "moved" ELSE "unsent",
                     sent |-> s.sent, token |-> s.token]

\* The continuation without the finally block.
SettleFulfilledKeepsPending(st, payload) ==
  LET st1 == [st EXCEPT !.gameStatus = IF payload.status = NoStatus
                                       THEN "in_progress"
                                       ELSE payload.status]
  IN  IF payload.move # Null
      THEN ApplyEngineMove(st1, payload.move)
      ELSE st1

\* The continuation ignoring the authority's move.
SettleFulfilledDropsMove(st, payload) ==
  [st EXCEPT !.gameStatus = IF payload.status = NoStatus
                            THEN "in_progress"
                            ELSE payload.status,
             !.isSubmittingMove = FALSE]

\* The continuation leaving the status as it was.
SettleFulfilledKeepsStatus(st, payload) ==
  LET st2 == IF payload.move # Null
             THEN ApplyEngineMove(st, payload.move)
             ELSE st
  IN  [st2 EXCEPT !.isSubmittingMove = FALSE]

\* sendMoveToServer after its await, the response being ok.
SettleFulfilled(st, payload) ==
  LET st1 == [st EXCEPT !.gameStatus = IF payload.status = NoStatus
                                       THEN "in_progress"
                                       ELSE payload.status]
      st2 == IF payload.move # Null
             THEN ApplyEngineMove(st1, payload.move)
             ELSE st1
  IN  [st2 EXCEPT !.isSubmittingMove = FALSE]

\* The catch block undoing the move only for a rejection.
SettleCaughtUndoesRejectedOnly(st, message) ==
  LET st1 == IF message = "The move was rejected by the server."
             THEN SyncBoardState([st EXCEPT !.chess = ChessUndo(st.chess)])
             ELSE SyncBoardState(st)
  IN  [st1 EXCEPT !.error = message, !.isSubmittingMove = FALSE]

\* The catch block without chess.undo().
SettleCaughtNoUndo(st, message) ==
  [SyncBoardState(st) EXCEPT !.error = message, !.isSubmittingMove = FALSE]

\* The catch block without the finally block.
SettleCaughtKeepsPending(st, message) ==
  LET st1 == SyncBoardState([st EXCEPT !.chess = ChessUndo(st.chess)])
  IN  [st1 EXCEPT !.error = message]

\* sendMoveToServer after its await: the catch block and the finally block.
SettleCaught(st, message) ==
  LET st1 == SyncBoardState([st EXCEPT !.chess = ChessUndo(st.chess)])
  IN  [st1 EXCEPT !.error = message, !.isSubmittingMove = FALSE]

RECURSIVE MovePairsFromZeroBased(_, _, _)
\* The loop numbering the pairs from zero.
MovePairsFromZeroBased(h, i, pairs) ==
  IF i < Len(h)
  THEN MovePairsFromZeroBased(
         h, i + 2,
         Append(pairs, [moveNumber |-> i \div 2,
                        white |-> h[i + 1],
                        black |-> IF i + 1 < Len(h) THEN h[i + 2] ELSE Null]))
  ELSE pairs

RECURSIVE MovePairsFrom(_, _, _)
\* The loop of movePairs from index i (0-based, as in the code; a history
\* entry past the end reads as undefined).
MovePairsFrom(h, i, pairs) ==
  IF i < Len(h)
  THEN MovePairsFrom(
         h, i + 2,
         Append(pairs, [moveNumber |-> i \div 2 + 1,
                        white |-> h[i + 1],
                        black |-> IF i + 1 < Len(h) THEN h[i + 2] ELSE Null]))
  ELSE pairs

\* movePairs
MovePairs(h) == MovePairsFrom(h, 0, <<>>)

\* The disabled prop of the board's buttons.
BoardDisabled(st, pr) == pr.gameId = "" \/ st.gameStatus # "in_progress"

(***************************************************************************)
(* The home page's form (NewGameForm).                                     *)
(***************************************************************************)
SIDES == {"white", "black"}

\* The form's state as one value.
Form ==
  [selectedSide |-> selectedSide, isStarting |-> isStarting,
   error |-> formError]

SetForm(fm) ==
  /\ selectedSide' = fm.selectedSide
  /\ isStarting' = fm.isStarting
  /\ formError' = fm.error

\* The useState initialisers of the form.
FormInitialState(url) ==
  [selectedSide |-> "white", isStarting |-> FALSE,
   error |-> IF NormalizedApiUrl(url) # <<>> THEN NoError
             ELSE "API_URL is not set."]

ConfigurationMessage ==
  "API_URL is not configured. Update your environment settings."

CreationRejectedMessage == "Unable to start a game. Is the API running?"

\* handleStart up to its await: the state it leaves, whether a request was
\* issued, and the side the request (and the closure) carries.
HandleStart(fm, url) ==
  IF NormalizedApiUrl(url) = <<>>
  THEN [fm |-> [fm EXCEPT !.error = ConfigurationMessage], sent |-> FALSE]
  ELSE [fm |-> [fm EXCEPT !.isStarting = TRUE, !.error = NoError],
        sent |-> TRUE]

\* The catch block without the finally block.
StartCaughtKeepsStarting(fm, message) == [fm EXCEPT !.error = message]

\* handleStart after its await, the creation having failed: the catch block
\* and the finally block.
StartCaught(fm, message) ==
  [fm EXCEPT !.error = message, !.isStarting = FALSE]

\* The record kept of an operation of the form: which one, how it went, and
\* the form and the outstanding creations before it.
FormRecord(op, kind, pre, preRequests) ==
  [op |-> op, kind |-> kind, pre |-> pre, preRequests |-> preRequests]

\* No operation of the form recorded.
NoFormRecord == FormRecord("-", "-", FormInitialState(<<>>), <<>>)

\* The game page's reading of the side search parameter.
NormalizedSide(side) ==
  IF side = "black" THEN "b" ELSE IF side = "white" THEN "w" ELSE Null

(***************************************************************************)
(* Bookkeeping of the operations (history variables).                      *)
(***************************************************************************)
NoResponse == [kind |-> "-", move |-> Null, status |-> NoStatus]

\* No request: the shape of an element of requests.
NoRequest == [gameId |-> "", token |-> Null, session |-> 0]

\* No state recorded.
NoState == InitialState(<<>>)

\* The record kept of an operation: which one, how it went, the response it
\* processed and the request that response settles (or the request a click
\* issued), whether an authority move was applied, and, for a click or a
\* settlement, the state and the outstanding requests before it.
Record(op, kind, stale, response, applied, req, pre, preRequests) ==
  [op |-> op, kind |-> kind, stale |-> stale, response |-> response,
   applied |-> applied, req |-> req, pre |-> pre, preRequests |-> preRequests]

RemoveAt(seq, i) == SubSeq(seq, 1, i - 1) \o SubSeq(seq, i + 1, Len(seq))

(***************************************************************************)
(* Initial state: the component after construction, before its effect.     *)
(***************************************************************************)
\* Nothing given to the token codec, nothing made by it.
NoCodec ==
  [kind |-> "-", token |-> Null,
   move |-> [from |-> Null, to |-> Null, promotion |-> NoPromo]]

\* The game page with a new ChessGame for the props pr.
Construct(pr) ==
  /\ page' = "game"
  /\ gameId' = pr.gameId
  /\ playerColor' = pr.playerColor
  /\ initialEngineMove' = pr.initialEngineMove
  /\ SetState(InitialState(apiUrl))
  /\ SetForm(FormInitialState(apiUrl))
  /\ createRequests' = <<>>
  /\ formLast' = NoFormRecord
  /\ requests' = <<>>
  /\ session' = 0
  /\ attempt' = NoState
  /\ confirmedLen' = 0
  /\ desynced' = FALSE
  /\ absorbed' = FALSE
  /\ last' = Record("construct", "created", FALSE, NoResponse, FALSE,
                    NoRequest, NoState, <<>>)
  /\ UNCHANGED apiUrl

\* The application is opened on the home page, or on the page of a game by
\* its URL.
Init ==
  /\ apiUrl \in ApiUrls
  /\ page \in {"home", "game"}
  /\ selectedSide = FormInitialState(apiUrl).selectedSide
  /\ isStarting = FormInitialState(apiUrl).isStarting
  /\ formError = FormInitialState(apiUrl).error
  /\ createRequests = <<>>
  /\ formLast = NoFormRecord
  /\ IF page = "game"
     THEN /\ gameId \in GameIds
          /\ playerColor \in {"w", "b"}
          /\ initialEngineMove \in InitialMoves
     ELSE /\ gameId = ""
          /\ playerColor = "w"
          /\ initialEngineMove = Null
  /\ chess = InitialState(apiUrl).chess
  /\ gameStatus = InitialState(apiUrl).gameStatus
  /\ error = InitialState(apiUrl).error
  /\ isSubmittingMove = InitialState(apiUrl).isSubmittingMove
  /\ selectedSquare = InitialState(apiUrl).selectedSquare
  /\ availableTargets = InitialState(apiUrl).availableTargets
  /\ lastMove = InitialState(apiUrl).lastMove
  /\ history = InitialState(apiUrl).history
  /\ requests = <<>>
  /\ session = 0
  /\ attempt = NoState
  /\ confirmedLen = 0
  /\ desynced = FALSE
  /\ absorbed = FALSE
  /\ last = Record("construct", "-", FALSE, NoResponse, FALSE, NoRequest,
                   NoState, <<>>)
  /\ codecIn = NoCodec
  /\ codecOut = NoCodec

(***************************************************************************)
(* Actions.                                                                *)
(***************************************************************************)
\* The initialize effect runs with the props pr.
RunEffect(pr) ==
  LET st == InitializeEffect(State, pr, apiUrl)
      tried == /\ pr.gameId # ""
               /\ NormalizedApiUrl(apiUrl) # <<>>
               /\ pr.playerColor = "b"
               /\ pr.initialEngineMove # Null
      applied == tried /\ EngineMoveApplies(NewChess, pr.initialEngineMove)
  IN  /\ SetState(st)
      /\ gameId' = pr.gameId
      /\ playerColor' = pr.playerColor
      /\ initialEngineMove' = pr.initialEngineMove
      /\ session' = session + 1
      /\ attempt' = NoState
      /\ confirmedLen' = Len(st.chess.hist)
      /\ desynced' = (tried /\ ~applied)
      /\ absorbed' = FALSE
      /\ last' = Record("initialize", IF tried THEN "engineMove" ELSE "plain",
                        FALSE, NoResponse, applied, NoRequest, NoState, <<>>)
      /\ UNCHANGED <<apiUrl, requests>>
      /\ UNCHANGED formVars
      /\ UNCHANGED codecVars

\* The effect's first run, after the component is mounted.
Mount ==
  /\ page = "game"
  /\ session = 0
  /\ RunEffect(Props)

\* The component is rendered with another gameId, colour or initial move:
\* the effect's dependencies changed and it runs again.
Reinitialize ==
  /\ session >= 1
  /\ session < MaxSessions
  /\ \E g \in GameIds, c \in {"w", "b"}, im \in InitialMoves :
       LET pr == [gameId |-> g, playerColor |-> c, initialEngineMove |-> im]
       IN  /\ pr # Props
           /\ RunEffect(pr)

\* The user clicks the board cell whose square name is square; plies is the
\* longest history explored.
ClickUpTo(square, plies) ==
  /\ session >= 1
  /\ LET r == IF BoardDisabled(State, Props)
              THEN NotSent(State, "disabled")
              ELSE HandleSquareClick(State, Props, apiUrl, square)
         req == [gameId |-> gameId, token |-> r.token, session |-> session]
     IN  /\ r.kind \in {"moved", "unsent"} => Len(chess.hist) + 2 <= plies
         /\ SetState(r.st)
         /\ requests' = IF r.sent THEN Append(requests, req) ELSE requests
         /\ attempt' = IF r.kind \in {"moved", "unsent"} THEN State ELSE attempt
         /\ last' = Record("click", r.kind, FALSE, NoResponse, FALSE,
                           IF r.sent THEN req ELSE NoRequest, State, requests)
  /\ UNCHANGED <<apiUrl, gameId, playerColor, initialEngineMove, session,
                 confirmedLen, desynced, absorbed>>
  /\ UNCHANGED formVars
  /\ UNCHANGED codecVars

Click(square) == ClickUpTo(square, MaxPlies)

\* The response to the i-th outstanding request arrives and the rest of
\* sendMoveToServer runs.
Settle(i, resp) ==
  LET req == requests[i]
      stale == req.session # session
      accepted == resp.kind = "accepted"
      applied == /\ accepted
                 /\ resp.move # Null
                 /\ EngineMoveApplies(chess, resp.move)
      st == IF accepted
            THEN SettleFulfilled(State, resp)
            ELSE SettleCaught(State, IF resp.kind = "rejected"
                                     THEN RejectedMessage
                                     ELSE TransportMessage)
  IN  /\ SetState(st)
      /\ requests' = RemoveAt(requests, i)
      /\ confirmedLen' = IF accepted
                         THEN Len(st.chess.hist)
                         ELSE Min(confirmedLen, Len(st.chess.hist))
      /\ desynced' = (desynced \/ (~stale /\ accepted /\ resp.move # Null
                                   /\ ~applied))
      /\ absorbed' = (absorbed \/ stale)
      /\ last' = Record("settle", resp.kind, stale, resp, applied, req,
                        State, requests)
      /\ UNCHANGED <<apiUrl, gameId, playerColor, initialEngineMove, session,
                     attempt>>
      /\ UNCHANGED formVars
      /\ UNCHANGED codecVars

\* The variables of the game page.
gameVars ==
  <<apiUrl, gameId, playerColor, initialEngineMove, chess, gameStatus, error,
    isSubmittingMove, selectedSquare, availableTargets, lastMove, history,
    requests, session, attempt, confirmedLen, desynced, absorbed, last>>

\* The user picks a side on the form.
SelectSide(side) ==
  /\ page = "home"
  /\ side # selectedSide
  /\ selectedSide' = side
  /\ formLast' = FormRecord("select", "-", Form, createRequests)
  /\ UNCHANGED <<page, isStarting, formError, createRequests>>
  /\ UNCHANGED gameVars
  /\ UNCHANGED codecVars

\* The start button pressed whether or not it is disabled.
StartWhileStarting ==
  /\ page = "home"
  /\ LET r == HandleStart(Form, apiUrl)
     IN  /\ SetForm(r.fm)
         /\ createRequests' = IF r.sent
                              THEN Append(createRequests,
                                          [side |-> selectedSide])
                              ELSE createRequests
         /\ formLast' = FormRecord("start",
                                   IF r.sent THEN "sent" ELSE "unsent",
                                   Form, createRequests)
  /\ UNCHANGED page
  /\ UNCHANGED gameVars
  /\ UNCHANGED codecVars

\* The user presses the start button, which is disabled while isStarting.
Start ==
  /\ page = "home"
  /\ ~isStarting
  /\ LET r == HandleStart(Form, apiUrl)
     IN  /\ SetForm(r.fm)
         /\ createRequests' = IF r.sent
                              THEN Append(createRequests,
                                          [side |-> selectedSide])
                              ELSE createRequests
         /\ formLast' = FormRecord("start",
                                   IF r.sent THEN "sent" ELSE "unsent",
                                   Form, createRequests)
  /\ UNCHANGED page
  /\ UNCHANGED gameVars
  /\ UNCHANGED codecVars

\* The response to the i-th outstanding creation arrives and the rest of
\* handleStart runs: it navigates to the page of the new game, or reports
\* the failure.
SettleCreate(i, resp) ==
  /\ page = "home"
  /\ UNCHANGED codecVars
  /\ IF resp.kind = "accepted"
     THEN Construct([gameId |-> resp.gameId,
                     playerColor |-> NormalizedSide(createRequests[i].side),
                     initialEngineMove |-> resp.move])
     ELSE /\ SetForm(StartCaught(Form, IF resp.kind = "rejected"
                                       THEN CreationRejectedMessage
                                       ELSE TransportMessage))
          /\ createRequests' = RemoveAt(createRequests, i)
          /\ formLast' = FormRecord("settle", resp.kind, Form, createRequests)
          /\ UNCHANGED page
          /\ UNCHANGED gameVars

SelectSides == \E side \in SIDES : SelectSide(side)

SettleCreates ==
  \E i \in 1..Len(createRequests), resp \in CreateResponses :
    SettleCreate(i, resp)

Clicks == \E square \in ClickSquares : Click(square)

Settles == \E i \in 1..Len(requests), resp \in Responses : Settle(i, resp)

Next ==
  \/ SelectSides
  \/ Start
  \/ SettleCreates
  \/ Mount
  \/ Reinitialize
  \/ Clicks
  \/ Settles

Spec == Init /\ [][Next]_vars

\* The same, every outstanding move submission being answered in the end:
\* the fetch of sendMoveToServer resolves or rejects.
SpecResponsive == Spec /\ WF_vars(Settles)

(***************************************************************************)
(* A session of white in which a pawn is about to promote: the game page   *)
(* after four moves of the player, each accepted with a reply.             *)
(***************************************************************************)
PromotionUrl == <<"h">>

PromotionProps ==
  [gameId |-> "g1", playerColor |-> "w", initialEngineMove |-> Null]

\* The player's moves (the two squares clicked) and the authority's replies:
\* 1. a4 b5 2. axb5 a6 3. bxa6 Nc6 4. a7 Rb8.
PromotionLine ==
  <<[from |-> <<"a", "2">>, to |-> <<"a", "4">>,
     reply |-> <<"b", "7", "b", "5">>],
    [from |-> <<"a", "4">>, to |-> <<"b", "5">>,
     reply |-> <<"a", "7", "a", "6">>],
    [from |-> <<"b", "5">>, to |-> <<"a", "6">>,
     reply |-> <<"b", "8", "c", "6">>],
    [from |-> <<"a", "6">>, to |-> <<"a", "7">>,
     reply |-> <<"a", "8", "b", "8">>]>>

\* One move of the line played through the component: the click on the
\* piece, the click on the destination, and the accepted response.  It gives
\* the state reached, the state before the move and the request issued.
PlayRound(st, round) ==
  LET selected == HandleSquareClick(st, PromotionProps, PromotionUrl,
                                    round.from).st
      moved == HandleSquareClick(selected, PromotionProps, PromotionUrl,
                                 round.to)
      resp == [kind |-> "accepted", move |-> round.reply,
               status |-> "in_progress"]
  IN  [st |-> SettleFulfilled(moved.st, resp),
       attempt |-> selected,
       submitted |-> moved.st,
       req |-> [gameId |-> PromotionProps.gameId, token |-> moved.token,
                session |-> 1],
       resp |-> resp]

RECURSIVE PlayLine(_, _)
\* The first k moves of the line played after the initialize effect.
PlayLine(line, k) ==
  IF k = 0
  THEN [st |-> InitializeEffect(InitialState(PromotionUrl), PromotionProps,
                                PromotionUrl),
        attempt |-> NoState, submitted |-> NoState, req |-> NoRequest,
        resp |-> NoResponse]
  ELSE CHOOSE played \in {PlayRound(before.st, line[k]) :
                           before \in {PlayLine(line, k - 1)}} : TRUE

InitPromotion ==
  \E played \in {PlayLine(PromotionLine, Len(PromotionLine))} :
      /\ apiUrl = PromotionUrl
      /\ page = "game"
      /\ selectedSide = FormInitialState(apiUrl).selectedSide
      /\ isStarting = FormInitialState(apiUrl).isStarting
      /\ formError = FormInitialState(apiUrl).error
      /\ createRequests = <<>>
      /\ formLast = NoFormRecord
      /\ gameId = PromotionProps.gameId
      /\ playerColor = PromotionProps.playerColor
      /\ initialEngineMove = PromotionProps.initialEngineMove
      /\ chess = played.st.chess
      /\ gameStatus = played.st.gameStatus
      /\ error = played.st.error
      /\ isSubmittingMove = played.st.isSubmittingMove
      /\ selectedSquare = played.st.selectedSquare
      /\ availableTargets = played.st.availableTargets
      /\ lastMove = played.st.lastMove
      /\ history = played.st.history
      /\ requests = <<>>
      /\ session = 1
      /\ attempt = played.attempt
      /\ confirmedLen = Len(played.st.chess.hist)
      /\ desynced = FALSE
      /\ absorbed = FALSE
      /\ last = Record("settle", "accepted", FALSE, played.resp, TRUE,
                       played.req, played.submitted, <<played.req>>)
      /\ codecIn = NoCodec
      /\ codecOut = NoCodec

\* The squares the user clicks: the pawn, the two squares it can promote on,
\* the rook and a square the rook can go to.
PromotionClickSquares ==
  {<<"a", "7">>, <<"a", "8">>, <<"b", "8">>, <<"a", "1">>, <<"a", "6">>}

PromotionClicks ==
  \E square \in PromotionClickSquares :
    ClickUpTo(square, 2 * Len(PromotionLine) + MaxPlies)

NextPromotion == PromotionClicks \/ Settles

SpecPromotion == InitPromotion /\ [][NextPromotion]_vars

(***************************************************************************)
(* The token codec by itself: createMoveToken and the decoding made by     *)
(* applyEngineMove, applied to every move and every well-formed token.     *)
(***************************************************************************)
PromotionLetters == {"q", "r", "b", "n"}

\* The from, to and promotion of every Move.
CodecMoves ==
  [from : Squares, to : Squares, promotion : PromotionLetters \cup {NoPromo}]

\* Every well-formed token: two squares and an optional promotion letter.
CodecTokens ==
  {from \o to : from \in Squares, to \in Squares}
  \cup {from \o to \o <<p>> :
          from \in Squares, to \in Squares, p \in PromotionLetters}

InitToken ==
  /\ apiUrl = <<>>
  /\ page = "home"
  /\ selectedSide = FormInitialState(apiUrl).selectedSide
  /\ isStarting = FormInitialState(apiUrl).isStarting
  /\ formError = FormInitialState(apiUrl).error
  /\ createRequests = <<>>
  /\ formLast = NoFormRecord
  /\ gameId = ""
  /\ playerColor = "w"
  /\ initialEngineMove = Null
  /\ chess = InitialState(apiUrl).chess
  /\ gameStatus = InitialState(apiUrl).gameStatus
  /\ error = InitialState(apiUrl).error
  /\ isSubmittingMove = InitialState(apiUrl).isSubmittingMove
  /\ selectedSquare = InitialState(apiUrl).selectedSquare
  /\ availableTargets = InitialState(apiUrl).availableTargets
  /\ lastMove = InitialState(apiUrl).lastMove
  /\ history = InitialState(apiUrl).history
  /\ requests = <<>>
  /\ session = 0
  /\ attempt = NoState
  /\ confirmedLen = 0
  /\ desynced = FALSE
  /\ absorbed = FALSE
  /\ last = Record("construct", "-", FALSE, NoResponse, FALSE, NoRequest,
                   NoState, <<>>)
  /\ \/ \E m \in CodecMoves :
          codecIn = [kind |-> "move", token |-> Null, move |-> m]
     \/ \E t \in CodecTokens :
          codecIn = [kind |-> "token", token |-> t, move |-> NoCodec.move]
  /\ codecOut = NoCodec

\* createMoveToken of the move, and the decoding of that token.
EncodeThenDecode ==
  /\ codecIn.kind = "move"
  /\ codecOut = NoCodec
  /\ LET token == CreateMoveToken(codecIn.move)
     IN  codecOut' = [kind |-> "move", token |-> token,
                      move |-> DecodeToken(token)]
  /\ UNCHANGED codecIn
  /\ UNCHANGED gameVars
  /\ UNCHANGED formVars

\* The decoding of the token, and createMoveToken of what it yields.
DecodeThenEncode ==
  /\ codecIn.kind = "token"
  /\ codecOut = NoCodec
  /\ LET move == DecodeToken(codecIn.token)
     IN  codecOut' = [kind |-> "token", token |-> CreateMoveToken(move),
                      move |-> move]
  /\ UNCHANGED codecIn
  /\ UNCHANGED gameVars
  /\ UNCHANGED formVars

NextToken == EncodeThenDecode \/ DecodeThenEncode

SpecToken == InitToken /\ [][NextToken]_vars

(***************************************************************************)
(* The board presentation (ChessBoard).                                    *)
(***************************************************************************)
\* baseIndices, or its reverse for the black perspective.
IndexOrder(perspective) ==
  IF perspective = "w" THEN [i \in 0..7 |-> i] ELSE [i \in 0..7 |-> 7 - i]

\* renderedSquares: the 64 cells in display order, each with the square name
\* given to its button, the occupant it shows and its three flags.
RenderedSquares(boardState, perspective, selected, targets, lm) ==
  LET rowOrder == IndexOrder(perspective)
      columnOrder == IndexOrder(perspective)
  IN  [k \in 1..64 |->
         LET displayRowIndex == (k - 1) \div 8
             displayColumnIndex == (k - 1) % 8
             rowIdx == rowOrder[displayRowIndex]
             colIdx == columnOrder[displayColumnIndex]
             rank == 8 - displayRowIndex
             file == FILES[displayColumnIndex + 1]
             squareName == <<file, RankChars[rank]>>
         IN  [squareName |-> squareName,
              piece |-> boardState[rowIdx][colIdx],
              isHighlighted |-> squareName \in targets,
              isSelected |-> selected = squareName,
              isLastMoveSquare |->
                lm # NoLastMove /\ (lm.from = squareName \/ lm.to = squareName)]]

\* The board as the component renders it for the perspective.
Rendered(perspective) ==
  RenderedSquares(BoardRows(chess), perspective, selectedSquare,
                  availableTargets, lastMove)

(***************************************************************************)
(* The states of the session.                                              *)
(***************************************************************************)
\* The player's clicks are accepted.
PlayerToMove ==
  /\ session >= 1
  /\ ~BoardDisabled(State, Props)
  /\ ~ClickIgnored(State, Props)

MoveSubmitted == isSubmittingMove

Finished == gameStatus # "in_progress"

\* The last operation settled a submission in the session that issued it.
SettledHere(kinds) ==
  /\ last.op = "settle"
  /\ last.kind \in kinds
  /\ ~last.stale

\* The status an accepted response sets.
StatusOf(resp) == IF resp.status = NoStatus THEN "in_progress" ELSE resp.status

(***************************************************************************)
(* Claims.                                                                 *)
(***************************************************************************)
\* C1: at most one move submission is outstanding in every reachable state,
\* and a square click made while the pending flag is set leaves the
\* Position, the history, the selection with its candidate set and the
\* pending flag as they were and issues no request.
C1_AtMostOneInFlight ==
  /\ Len(requests) <= 1
  /\ (last.op = "click" /\ last.pre.isSubmittingMove) =>
       /\ chess = last.pre.chess
       /\ history = last.pre.history
       /\ selectedSquare = last.pre.selectedSquare
       /\ availableTargets = last.pre.availableTargets
       /\ isSubmittingMove = last.pre.isSubmittingMove
       /\ requests = last.preRequests

\* C1 witness: a click handled while a submission is outstanding, the game
\* in progress and the board enabled.
C1_Witness ==
  /\ last.op = "click"
  /\ last.kind = "ignored"
  /\ last.pre.isSubmittingMove
  /\ Len(requests) = 1

\* C2: after a submission is rejected or fails in transport (settling in the
\* session that issued it), the Position (board, side to move, engine
\* history), the displayed history and the last move are exactly those
\* before the attempt.
C2_RollbackRestores ==
  SettledHere({"rejected", "failed"}) =>
    /\ chess.board = attempt.chess.board
    /\ chess.turn = attempt.chess.turn
    /\ chess.hist = attempt.chess.hist
    /\ history = attempt.history
    /\ lastMove = attempt.lastMove

\* C2 witness: a rolled-back capture after two earlier moves.
C2_Witness ==
  /\ SettledHere({"rejected", "failed"})
  /\ Len(history) = 2
  /\ last.pre.chess.hist[3].captured # NoPiece

\* C3 (as claimed): whenever the pending flag is clear, the Position and the
\* displayed history hold only moves the authority confirmed.
C3_OnlyConfirmedMoves ==
  ~isSubmittingMove =>
    /\ Len(chess.hist) = confirmedLen
    /\ Len(history) = confirmedLen

\* C4 (as claimed): the settlement of a submission issued by an earlier
\* session leaves Position, history, status and error of the current session
\* as they were.
C4_StaleSettlementIgnored ==
  (last.op = "settle" /\ last.stale) =>
    /\ chess = last.pre.chess
    /\ history = last.pre.history
    /\ gameStatus = last.pre.gameStatus
    /\ error = last.pre.error

\* The (square name, occupant) pairs of the rendered cells.
RenderedPairs(perspective) ==
  {<<Rendered(perspective)[k].squareName, Rendered(perspective)[k].piece>> :
     k \in 1..64}

\* C5 (as claimed): for both perspectives every rendered cell shows the
\* occupant of the square it is named after, so both perspectives render the
\* same set of (square name, occupant) pairs.
C5_PerspectiveInvariance ==
  /\ \A p \in {"w", "b"} : \A k \in 1..64 :
       Rendered(p)[k].piece = chess.board[Rendered(p)[k].squareName]
  /\ RenderedPairs("w") = RenderedPairs("b")

\* C6: when a submission is accepted (in the session that issued it) with an
\* authority move the engine applies, the history is the pre-attempt history,
\* then the player's move (the one whose token was submitted), then the
\* authority's move (the one the response's token names); the status is the
\* response's, the pending flag is clear, and if the status is "in_progress"
\* the player's colour is to move and the player's clicks are accepted.
C6_AcceptedWithAuthorityMove ==
  (SettledHere({"accepted"}) /\ last.applied) =>
    LET n == Len(attempt.history)
    IN  /\ Len(history) = n + 2
        /\ SubSeq(history, 1, n) = attempt.history
        /\ history = SanHistory(chess)
        /\ SubSeq(chess.hist, 1, n) = attempt.chess.hist
        /\ chess.hist[n + 1].color = playerColor
        /\ CreateMoveToken(chess.hist[n + 1]) = last.req.token
        /\ chess.hist[n + 2].color = Other(playerColor)
        /\ chess.hist[n + 2].from = Slice(last.response.move, 0, 2)
        /\ chess.hist[n + 2].to = Slice(last.response.move, 2, 4)
        /\ gameStatus = StatusOf(last.response)
        /\ ~isSubmittingMove
        /\ gameStatus = "in_progress" =>
             (PlayerToMove /\ chess.turn = playerColor)

\* C6 witness: black's e5 accepted with the counter-move Nf3 after the
\* opening e4; the game goes on.
C6_Witness ==
  /\ SettledHere({"accepted"})
  /\ last.applied
  /\ gameStatus = "in_progress"
  /\ history = <<<<"e", "4">>, <<"e", "5">>, <<"N", "f", "3">>>>

\* C7 (as claimed): when a submission is accepted with no authority move,
\* the status is the response's, the pending flag is clear, the player's move
\* stays, and the player's clicks are accepted if the status is "in_progress"
\* (the session is Finished otherwise).
C7_AsClaimed ==
  (SettledHere({"accepted"}) /\ last.response.move = Null) =>
    /\ gameStatus = StatusOf(last.response)
    /\ ~isSubmittingMove
    /\ chess = last.pre.chess
    /\ Len(history) = Len(attempt.history) + 1
    /\ IF gameStatus = "in_progress" THEN PlayerToMove ELSE Finished

\* C7 (amended): when a submission is accepted with no authority move, the
\* status is the response's, the pending flag is clear and the player's move
\* stays in Position and history; the side to move is then the authority's
\* colour, so the player's clicks are not accepted, whether the status is
\* "in_progress" (the session waits for the authority) or not (Finished).
C7_AcceptedNoAuthorityMove ==
  (SettledHere({"accepted"}) /\ last.response.move = Null) =>
    LET n == Len(attempt.history)
    IN  /\ gameStatus = StatusOf(last.response)
        /\ ~isSubmittingMove
        /\ chess = last.pre.chess
        /\ Len(history) = n + 1
        /\ SubSeq(history, 1, n) = attempt.history
        /\ history = SanHistory(chess)
        /\ CreateMoveToken(chess.hist[n + 1]) = last.req.token
        /\ chess.turn = Other(playerColor)
        /\ ~PlayerToMove
        /\ gameStatus # "in_progress" => Finished

\* C7 witness: a move accepted with no authority move and status
\* "in_progress".
C7_Witness ==
  /\ SettledHere({"accepted"})
  /\ last.response.move = Null
  /\ gameStatus = "in_progress"
  /\ Len(history) = 2

\* C8: after a rejection or a transport failure (in the issuing session) the
\* pending flag is clear, an error message is set, the player's clicks are
\* accepted and some piece of the player has a legal move; and a move the
\* player then makes is submitted: it issues a request and sets the pending
\* flag.
C8_RejectedBackToPlayerToMove ==
  /\ SettledHere({"rejected", "failed"}) =>
       /\ ~isSubmittingMove
       /\ error \notin {NoError, ""}
       /\ PlayerToMove
       /\ \E sq \in Squares : MovesFrom(chess, sq) # {}
  /\ (/\ last.op = "click"
      /\ last.kind \in {"moved", "unsent"}
      /\ last.pre.error \in {RejectedMessage, TransportMessage}) =>
       /\ last.kind = "moved"
       /\ isSubmittingMove
       /\ requests = Append(last.preRequests, last.req)
       /\ last.req.token = CreateMoveToken(chess.hist[Len(chess.hist)])

\* C8 witness: a move made and submitted right after a rejected one.
C8_Witness ==
  /\ last.op = "click"
  /\ last.kind = "moved"
  /\ last.pre.error = RejectedMessage
  /\ Len(requests) = 1

\* C9 (as claimed): a click made when the status is not "in_progress", or
\* after an authority move failed to apply in this session, changes neither
\* selection, candidate set, Position nor history and issues no submission.
C9_TerminalStates ==
  (last.op = "click" /\ (last.pre.gameStatus # "in_progress" \/ desynced)) =>
    /\ selectedSquare = last.pre.selectedSquare
    /\ availableTargets = last.pre.availableTargets
    /\ chess = last.pre.chess
    /\ history = last.pre.history
    /\ requests = last.preRequests

\* C10: when an accepted response (in the issuing session) carries an
\* authority move the engine cannot apply, the player's move is not rolled
\* back (Position and history are those before the response, one move longer
\* than before the attempt), the engine-move error is reported, the pending
\* flag is clear and nothing is resubmitted.
C10_DesyncReported ==
  (SettledHere({"accepted"}) /\ last.response.move # Null /\ ~last.applied) =>
    /\ desynced
    /\ chess = last.pre.chess
    /\ history = last.pre.history
    /\ Len(chess.hist) = Len(attempt.chess.hist) + 1
    /\ CreateMoveToken(chess.hist[Len(chess.hist)]) = last.req.token
    /\ error = EngineMoveError
    /\ ~isSubmittingMove
    /\ requests = <<>>

\* C10 witness: a desync reported after the second move of the player.
C10_Witness ==
  /\ SettledHere({"accepted"})
  /\ last.response.move # Null
  /\ ~last.applied
  /\ Len(history) = 3

\* The service location is known.
Configured == NormalizedApiUrl(apiUrl) # <<>>

\* The last operation was the initialize effect of a configured session of
\* black given an initial authority move.
InitializedWithMove ==
  /\ last.op = "initialize"
  /\ last.kind = "engineMove"

\* C11 (as claimed): after initialize with playerColor black and an initial
\* authority move the engine applies, the history is exactly that move, black
\* (the player) is to move, the status is "in_progress", the selection and
\* the candidate set are empty, and the player's clicks are accepted.
C11_InitializedBlackToMove ==
  (InitializedWithMove /\ last.applied) =>
    /\ Len(chess.hist) = 1
    /\ chess.hist[1].from = Slice(initialEngineMove, 0, 2)
    /\ chess.hist[1].to = Slice(initialEngineMove, 2, 4)
    /\ history = SanHistory(chess)
    /\ chess.turn = "b"
    /\ playerColor = "b"
    /\ gameStatus = "in_progress"
    /\ selectedSquare = Null
    /\ availableTargets = {}
    /\ PlayerToMove

\* C12 (as claimed): initialize resets the Position to the starting
\* arrangement (followed only by an applied initial authority move), empties
\* the history and the last move accordingly, clears the selection and the
\* candidate set and sets the status to "in_progress"; for white the history
\* is then empty and the player's clicks are accepted, whether or not an
\* initial authority move was supplied.
C12_InitializeResets ==
  last.op = "initialize" =>
    /\ gameStatus = "in_progress"
    /\ selectedSquare = Null
    /\ availableTargets = {}
    /\ history = SanHistory(chess)
    /\ IF last.applied
       THEN /\ Len(chess.hist) = 1
            /\ ChessUndo(chess) = NewChess
       ELSE /\ chess = NewChess
            /\ lastMove = NoLastMove
    /\ playerColor = "w" =>
         /\ chess = NewChess
         /\ history = <<>>
         /\ PlayerToMove

\* The session is one of black whose initial authority move the engine could
\* not apply.
InitDesynced ==
  /\ session >= 1
  /\ Configured
  /\ playerColor = "b"
  /\ initialEngineMove # Null
  /\ ~EngineMoveApplies(NewChess, initialEngineMove)

\* C13 (as claimed): after initialize with playerColor black and an initial
\* authority move the engine cannot apply, the Position stays the starting
\* arrangement with an empty history, the engine-move error is shown, and
\* every click leaves selection, candidate set, Position and history as they
\* were and submits nothing.
C13_InitialMoveDesync ==
  InitDesynced =>
    /\ chess = NewChess
    /\ history = <<>>
    /\ last.op = "initialize" => (desynced /\ error = EngineMoveError)
    /\ last.op = "click" =>
         /\ last.kind \in {"ignored", "disabled"}
         /\ selectedSquare = last.pre.selectedSquare
         /\ availableTargets = last.pre.availableTargets
         /\ requests = last.preRequests

\* The last operation was a click that applied a move of the selected piece
\* to one of its candidate destinations.
AttemptedMove ==
  /\ last.op = "click"
  /\ last.kind \in {"moved", "unsent"}

\* C14 (as claimed): a click on a candidate destination of the selected
\* square, the player's clicks being accepted, applies the move to the
\* Position, appends exactly one entry to the history, clears the selection
\* and the candidate set, sets the pending flag and issues exactly one
\* request, whose token is origin, destination and promotion letter of the
\* move just applied.
C14_AttemptMoveSubmits ==
  AttemptedMove =>
    LET n == Len(last.pre.chess.hist)
        m == chess.hist[n + 1]
    IN  /\ Len(chess.hist) = n + 1
        /\ m.from = last.pre.selectedSquare
        /\ m.to \in last.pre.availableTargets
        /\ m.color = playerColor
        /\ ChessUndo(chess) = last.pre.chess
        /\ history = Append(last.pre.history, m.san)
        /\ lastMove = [from |-> m.from, to |-> m.to]
        /\ selectedSquare = Null
        /\ availableTargets = {}
        /\ isSubmittingMove
        /\ requests = Append(last.preRequests, last.req)
        /\ Len(requests) = 1
        /\ last.req.gameId = gameId
        /\ last.req.token =
             m.from \o m.to
             \o (IF m.promotion = NoPromo THEN <<>> ELSE <<m.promotion>>)

\* C15: a click on a square holding a piece of the player, made when the
\* player's clicks are accepted on the player's turn, toggles the selection:
\* on the selected square it clears the selection and the candidate set; on
\* another square it makes that square the selection (replacing any earlier
\* one) and the candidate set the engine's legal destinations from it.
\* Position, history, last move, pending flag and outstanding requests are
\* unchanged in both cases.
C15_SelectToggles ==
  [][\A sq \in ClickSquares :
       (/\ Click(sq)
        /\ PlayerToMove
        /\ chess.turn = playerColor
        /\ chess.board[sq].color = playerColor) =>
         /\ IF selectedSquare = sq
            THEN /\ selectedSquare' = Null
                 /\ availableTargets' = {}
            ELSE /\ selectedSquare' = sq
                 /\ availableTargets' =
                      {t \in Squares : CanReach(chess.board, sq, t)}
         /\ chess' = chess
         /\ history' = history
         /\ lastMove' = lastMove
         /\ isSubmittingMove' = isSubmittingMove
         /\ requests' = requests]_vars

\* C15 witness: a selection replaced by the selection of another piece that
\* has legal destinations.
C15_Witness ==
  /\ last.op = "click"
  /\ last.kind = "select"
  /\ last.pre.selectedSquare # Null
  /\ selectedSquare # last.pre.selectedSquare
  /\ availableTargets # {}

\* C16: whenever a square is selected, it holds a piece of the player's
\* colour in the current Position, the pending flag is clear, the status is
\* "in_progress" and the player's colour is to move.
C16_SelectionInvariant ==
  selectedSquare # Null =>
    /\ selectedSquare \in Squares
    /\ chess.board[selectedSquare] # NoPiece
    /\ chess.board[selectedSquare].color = playerColor
    /\ ~isSubmittingMove
    /\ gameStatus = "in_progress"
    /\ chess.turn = playerColor

\* C16 witness: a square selected in a second session, after a move of the
\* first session was answered.
C16_Witness ==
  /\ selectedSquare # Null
  /\ session = 2
  /\ absorbed

\* C17: for every Move, decoding the token createMoveToken makes of it yields
\* the same origin, destination and promotion (and the token has 4 or 5
\* characters); and every well-formed token of 4 or 5 characters is what
\* createMoveToken makes of its decoding.
C17_TokenRoundTrip ==
  codecOut # NoCodec =>
    /\ Len(codecOut.token) \in {4, 5}
    /\ codecIn.kind = "move" =>
         /\ codecOut.move.from = codecIn.move.from
         /\ codecOut.move.to = codecIn.move.to
         /\ codecOut.move.promotion = codecIn.move.promotion
    /\ codecIn.kind = "token" =>
         /\ codecOut.token = codecIn.token
         /\ codecOut.move.from = SubSeq(codecIn.token, 1, 2)
         /\ codecOut.move.to = SubSeq(codecIn.token, 3, 4)

\* C17 witness: the promotion e7-e8 to a knight encoded and decoded.
C17_Witness ==
  /\ codecIn.kind = "move"
  /\ codecIn.move =
       [from |-> <<"e", "7">>, to |-> <<"e", "8">>, promotion |-> "n"]
  /\ codecOut.token = <<"e", "7", "e", "8", "n">>
  /\ codecOut.move = codecIn.move

\* C18: for the history of every reachable state, of length n, movePairs
\* yields (n + 1) \div 2 pairs; pair k has move number k, white the entry
\* 2k - 1 and black the entry 2k, black being undefined exactly in the last
\* pair of an odd history; and the history e4, e5, Nf3 gives the pairs
\* {1, e4, e5} and {2, Nf3, undefined}.
C18_HistoryPairs ==
  LET n == Len(history)
      pairs == MovePairs(history)
  IN  /\ Len(pairs) = (n + 1) \div 2
      /\ \A k \in 1..Len(pairs) :
           /\ pairs[k].moveNumber = k
           /\ pairs[k].white = history[2 * k - 1]
           /\ pairs[k].white # Null
           /\ 2 * k <= n => pairs[k].black = history[2 * k]
           /\ pairs[k].black = Null <=> (k = Len(pairs) /\ n % 2 = 1)
      /\ history = <<<<"e", "4">>, <<"e", "5">>, <<"N", "f", "3">>>> =>
           pairs = <<[moveNumber |-> 1, white |-> <<"e", "4">>,
                      black |-> <<"e", "5">>],
                     [moveNumber |-> 2, white |-> <<"N", "f", "3">>,
                      black |-> Null]>>

\* C18 witness: the history e4, e5, Nf3 with its two pairs, the second
\* without a black move.
C18_Witness ==
  /\ history = <<<<"e", "4">>, <<"e", "5">>, <<"N", "f", "3">>>>
  /\ Len(MovePairs(history)) = 2
  /\ MovePairs(history)[2].black = Null

\* C19 (as claimed): every step within a session leaves the length of the
\* history unchanged, or raises it by one, or lowers it by one; it lowers it
\* only when a submission is rejected or fails in transport, and the entry
\* removed is the optimistic move of that submission.
C19_HistoryLengthSteps ==
  [][(session' = session \/ session = 0) =>
       LET n == Len(history)
           d == Len(history') - n
       IN  /\ d \in {-1, 0, 1}
           /\ Len(chess'.hist) - Len(chess.hist) = d
           /\ d = -1 =>
                /\ last'.op = "settle"
                /\ last'.kind \in {"rejected", "failed"}
                /\ history' = SubSeq(history, 1, n - 1)
                /\ chess.hist[n].color = playerColor
                /\ CreateMoveToken(chess.hist[n]) = last'.req.token]_vars

\* C20: when the service location is not configured (the API URL is empty or
\* only a slash), no game creation and no move submission is outstanding in
\* any reachable state, and an error message is shown in every reachable
\* state: on the form of the home page and in the game session.
C20_NotConfigured ==
  apiUrl \in {<<>>, <<"/">>} =>
    /\ requests = <<>>
    /\ createRequests = <<>>
    /\ ~isSubmittingMove
    /\ ~isStarting
    /\ page = "home" => formError \notin {NoError, ""}
    /\ page = "game" => error \notin {NoError, ""}

\* C20 witness: in a session whose API URL is only a slash, the player has
\* made a move, which was not submitted.
C20_Witness ==
  /\ apiUrl = <<"/">>
  /\ page = "game"
  /\ last.op = "click"
  /\ last.kind = "unsent"
  /\ error = "Game is not ready. Start a new one."

\* The messages a failed game creation leaves on the form.
CreationFailures == {CreationRejectedMessage, TransportMessage}

\* C21: when a game creation fails (non-success response or transport
\* error), the client stays on the home page with no session started, the
\* failure's message is shown, the starting flag is clear and no creation is
\* outstanding; and the next press of the start button is accepted: it sets
\* the starting flag and issues a new creation request for the selected side.
C21_CreationFailureRecoverable ==
  /\ (formLast.op = "settle" /\ formLast.kind \in {"rejected", "failed"}) =>
       /\ page = "home"
       /\ session = 0
       /\ gameId = ""
       /\ formError = (IF formLast.kind = "rejected"
                       THEN CreationRejectedMessage
                       ELSE TransportMessage)
       /\ formError \notin {NoError, ""}
       /\ ~isStarting
       /\ createRequests = <<>>
       /\ selectedSide = formLast.pre.selectedSide
  /\ (formLast.op = "start" /\ formLast.pre.error \in CreationFailures) =>
       /\ formLast.kind = "sent"
       /\ isStarting
       /\ formError = NoError
       /\ createRequests = <<[side |-> selectedSide]>>

\* C21 witness: the start button pressed again after a creation was rejected,
\* the side changed in between.
C21_Witness ==
  /\ formLast.op = "start"
  /\ formLast.pre.error = CreationRejectedMessage
  /\ createRequests = <<[side |-> "black"]>>

\* C22: a rejection (non-success response) and a transport failure of a move
\* submission make the same rollback: after either, the Position is the one
\* before the response with its last move taken back, history and last move
\* follow it, the pending flag is clear, status, selection and candidate set
\* are untouched and the request is gone; the two differ only in the error
\* message shown.
C22_SameRollback ==
  (last.op = "settle" /\ last.kind \in {"rejected", "failed"}) =>
    /\ chess = ChessUndo(last.pre.chess)
    /\ history = SanHistory(chess)
    /\ lastMove = (IF chess.hist = <<>>
                   THEN NoLastMove
                   ELSE [from |-> chess.hist[Len(chess.hist)].from,
                         to |-> chess.hist[Len(chess.hist)].to])
    /\ ~isSubmittingMove
    /\ gameStatus = last.pre.gameStatus
    /\ selectedSquare = last.pre.selectedSquare
    /\ availableTargets = last.pre.availableTargets
    /\ Len(requests) = Len(last.preRequests) - 1
    /\ error = (IF last.kind = "rejected"
                THEN RejectedMessage
                ELSE TransportMessage)
    /\ RejectedMessage # TransportMessage

\* C22 witness: a transport failure that rolled back the player's second
\* move.
C22_Witness ==
  /\ SettledHere({"failed"})
  /\ error = TransportMessage
  /\ Len(last.pre.history) = 3
  /\ Len(history) = 2

\* C23: every move of the player that was submitted is, if a pawn reached
\* the last rank, a promotion to a queen (a queen of the player stands on the
\* destination) whose token has 5 characters, origin, destination and "q";
\* and otherwise a move without promotion (the piece moved stands on the
\* destination) whose token has 4 characters, origin and destination.
C23_PromotionToQueen ==
  (last.op = "click" /\ last.kind = "moved") =>
    LET m == chess.hist[Len(chess.hist)]
        token == requests[Len(requests)].token
    IN  /\ m.color = playerColor
        /\ IF last.pre.chess.board[m.from].type = "p" /\ RankOf(m.to) \in {1, 8}
           THEN /\ m.promotion = "q"
                /\ chess.board[m.to] = Piece(playerColor, "q")
                /\ Len(token) = 5
                /\ token = m.from \o m.to \o <<"q">>
           ELSE /\ m.promotion = NoPromo
                /\ chess.board[m.to] = last.pre.chess.board[m.from]
                /\ Len(token) = 4
                /\ token = m.from \o m.to

\* C23 witness: the pawn on a7 took the rook on b8 and became a queen.
C23_Witness ==
  /\ last.op = "click"
  /\ last.kind = "moved"
  /\ requests[1].token = <<"a", "7", "b", "8", "q">>
  /\ chess.board[<<"b", "8">>] = Piece("w", "q")
  /\ history[9] = <<"a", "x", "b", "8", "=", "Q">>

\* C24: a click on an empty square or on a square holding a piece of the
\* opponent, made while no square is selected, changes nothing: Position,
\* history, last move, selection, candidate set, pending flag, status and
\* error are as they were and no request is issued.
C24_NoSelectionNoOp ==
  [][\A sq \in ClickSquares :
       (/\ Click(sq)
        /\ selectedSquare = Null
        /\ chess.board[sq].color # playerColor) =>
         /\ chess' = chess
         /\ history' = history
         /\ lastMove' = lastMove
         /\ selectedSquare' = selectedSquare
         /\ availableTargets' = availableTargets
         /\ isSubmittingMove' = isSubmittingMove
         /\ gameStatus' = gameStatus
         /\ error' = error
         /\ requests' = requests]_vars

\* C24 witness: such a click was handled past the guard of the handler, in a
\* game with moves played.
C24_Witness ==
  /\ last.op = "click"
  /\ last.kind = "noselection"
  /\ Len(history) >= 2

\* C25: a click, made while the player's clicks are accepted and a square is
\* selected, on a square that holds no piece of the player and is outside
\* the candidate set is a no-op: Position, history, last move, pending flag,
\* status, error, the selection and its candidate set are as they were and no
\* request is issued.
C25_RejectedMoveNoOp ==
  [][\A sq \in ClickSquares :
       (/\ Click(sq)
        /\ PlayerToMove
        /\ selectedSquare # Null
        /\ chess.board[sq].color # playerColor
        /\ sq \notin availableTargets) =>
         /\ chess' = chess
         /\ history' = history
         /\ lastMove' = lastMove
         /\ selectedSquare' = selectedSquare
         /\ availableTargets' = availableTargets
         /\ isSubmittingMove' = isSubmittingMove
         /\ gameStatus' = gameStatus
         /\ error' = error
         /\ requests' = requests]_vars

\* C25 witness: the engine refused the move of a selected piece that has
\* candidate destinations.
C25_Witness ==
  /\ last.op = "click"
  /\ last.kind = "illegal"
  /\ selectedSquare # Null
  /\ availableTargets # {}

\* The origin or the destination substring of the token is no square.
Malformed(notation) ==
  \/ Slice(notation, 0, 2) \notin Squares
  \/ Slice(notation, 2, 4) \notin Squares

\* C26: an authority token whose origin or destination substring is no valid
\* file/rank pair is not applied: after the response that carried it,
\* Position, history and last move are those before the response, and the
\* engine-move error is in the error field.
C26_MalformedTokenReported ==
  (/\ last.op = "settle"
   /\ last.kind = "accepted"
   /\ last.response.move # Null
   /\ Malformed(last.response.move)) =>
    /\ ~last.applied
    /\ chess = last.pre.chess
    /\ history = last.pre.history
    /\ lastMove = last.pre.lastMove
    /\ error = EngineMoveError

\* C26 witness: a response carrying a token with a valid origin and an
\* invalid destination was processed after the player's move.
C26_Witness ==
  /\ SettledHere({"accepted"})
  /\ last.response.move = E7Z9
  /\ Len(history) = 1
  /\ error = EngineMoveError

\* C27: the pending flag is set exactly while a move submission is
\* outstanding; the state after the response to a submission, whatever the
\* response (accepted, with or without a move the engine can apply, rejected,
\* or failed in transport), has the pending flag clear; and, every submission
\* being answered in the end, whenever the pending flag is set it is later
\* clear.
C27_PendingEventuallyCleared ==
  /\ [](isSubmittingMove <=> requests # <<>>)
  /\ [](last.op = "settle" => (~isSubmittingMove /\ requests = <<>>))
  /\ (isSubmittingMove ~> ~isSubmittingMove)

\* C27 witness: the pending flag cleared by a response whose authority move
\* the engine could not apply, in a session other than the one that issued
\* the submission.
C27_Witness ==
  /\ last.op = "settle"
  /\ last.stale
  /\ last.kind = "accepted"
  /\ last.response.move # Null
  /\ ~last.applied
  /\ last.pre.isSubmittingMove
  /\ ~isSubmittingMove

\* C28: at most one game creation is outstanding in every reachable state;
\* the starting flag is set exactly while one is outstanding (the start
\* button is then disabled); once a creation has succeeded the game page
\* shows one new session, with the game and colour of that creation, and no
\* creation is outstanding any more.
C28_OneCreationInFlight ==
  /\ Len(createRequests) <= 1
  /\ isStarting <=> createRequests # <<>>
  /\ page = "game" => (createRequests = <<>> /\ ~isStarting)
  /\ (last.op = "construct" /\ last.kind = "created") =>
       /\ page = "game"
       /\ session = 0
       /\ gameId \in GameIds
       /\ playerColor \in {"w", "b"}
       /\ chess = NewChess
       /\ requests = <<>>

\* C28 witness: a creation for black succeeded with an opening move of the
\* authority; the game page shows the new session.
C28_Witness ==
  /\ last.op = "construct"
  /\ last.kind = "created"
  /\ page = "game"
  /\ playerColor = "b"
  /\ initialEngineMove = E2E4

\* The square whose occupant the k-th rendered cell shows.
DisplayedSquare(perspective, k) ==
  LET rowIdx == IndexOrder(perspective)[(k - 1) \div 8]
      colIdx == IndexOrder(perspective)[(k - 1) % 8]
  IN  SquareName(colIdx + 1, 8 - rowIdx)

\* C29 (as claimed): for the board rendered from the player's colour, a click
\* on a cell that shows a piece of the player, made when the player's clicks
\* are accepted, selects the square that piece stands on; and the
\* is-selected, is-candidate-target and is-last-move flags are on the cells
\* that show the occupants of the selected square, of the candidate
\* destinations and of the squares of the last move.
C29_ClickSelectsDisplayedPiece ==
  session >= 1 =>
    \A k \in 1..64 :
      LET cell == Rendered(playerColor)[k]
          real == DisplayedSquare(playerColor, k)
      IN  /\ cell.piece = chess.board[real]
          /\ (/\ PlayerToMove
              /\ cell.piece.color = playerColor
              /\ selectedSquare # real) =>
               HandleSquareClick(State, Props, apiUrl,
                                 cell.squareName).st.selectedSquare = real
          /\ cell.isSelected <=> selectedSquare = real
          /\ cell.isHighlighted <=> real \in availableTargets
          /\ cell.isLastMoveSquare <=>
               (lastMove # NoLastMove /\ real \in {lastMove.from, lastMove.to})

\* The game is in progress, no submission is in flight and no desync has
\* been reported.
Idle ==
  /\ session >= 1
  /\ gameStatus = "in_progress"
  /\ ~isSubmittingMove
  /\ requests = <<>>
  /\ ~desynced
  /\ error # EngineMoveError

\* C30 (as claimed): in every reachable state in which the status is
\* "in_progress", no submission is in flight and no desync has been reported,
\* the side to move is the player's colour and the player's clicks are
\* accepted.
C30_AsClaimed ==
  Idle => (chess.turn = playerColor /\ PlayerToMove)

\* C30 (amended): in every such state the player's clicks are accepted
\* exactly when the side to move is the player's colour; when it is the
\* authority's colour every click is dropped and no request is outstanding,
\* so the session waits for an authority move that nothing has requested.
C30_IdleTurn ==
  Idle =>
    /\ PlayerToMove <=> chess.turn = playerColor
    /\ chess.turn # playerColor =>
         /\ requests = <<>>
         /\ \A sq \in ClickSquares :
              /\ HandleSquareClick(State, Props, apiUrl, sq).kind = "ignored"
              /\ HandleSquareClick(State, Props, apiUrl, sq).st = State

\* C30 witness: a session of black initialised without an initial authority
\* move; white is to move, a click was dropped and nothing is outstanding.
C30_Witness ==
  /\ Idle
  /\ playerColor = "b"
  /\ chess.turn = "w"
  /\ history = <<>>
  /\ last.op = "click"
  /\ last.kind = "ignored"

(***************************************************************************)
(* C31: in every reachable state the displayed history is the move history *)
(* of the position (chess.history()), and the displayed last move is the   *)
(* origin and destination of the final entry of that history, or none when *)
(* the history is empty.                                                   *)
(***************************************************************************)
C31_DisplayedHistory ==
  /\ history = SanHistory(chess)
  /\ lastMove =
       IF Len(chess.hist) = 0
       THEN NoLastMove
       ELSE [from |-> chess.hist[Len(chess.hist)].from,
             to |-> chess.hist[Len(chess.hist)].to]

\* An authority move was applied after a move of the player: two entries
\* are displayed and the last move is the authority's.
C31_Witness ==
  /\ last.op = "settle"
  /\ last.applied
  /\ ~last.stale
  /\ Len(history) >= 2
  /\ lastMove = [from |-> Slice(last.response.move, 0, 2),
                 to |-> Slice(last.response.move, 2, 4)]

(***************************************************************************)
(* C32: the status changes only through initialize, which sets it to       *)
(* "in_progress", or through an accepted response to a move submission,    *)
(* which sets it to the response's status, or to "in_progress" when the    *)
(* response carries none; a rejection or a transport failure leaves the    *)
(* status as it was.                                                       *)
(***************************************************************************)
C32_StatusChanges ==
  [][/\ gameStatus' # gameStatus =>
          \/ last'.op = "initialize" /\ gameStatus' = "in_progress"
          \/ /\ last'.op = "settle"
             /\ last'.kind = "accepted"
             /\ gameStatus' = StatusOf(last'.response)
     /\ (last' # last /\ last'.op = "initialize") =>
          gameStatus' = "in_progress"
     /\ (last' # last /\ last'.op = "settle") =>
          gameStatus' = IF last'.kind = "accepted"
                        THEN StatusOf(last'.response)
                        ELSE gameStatus]_vars

\* An accepted response ended the game of the session that submitted the
\* move.
C32_Witness ==
  /\ SettledHere({"accepted"})
  /\ last.pre.gameStatus = "in_progress"
  /\ last.response.status # NoStatus
  /\ gameStatus = last.response.status
  /\ gameStatus # "in_progress"

(***************************************************************************)
(* C33 (as claimed): every move a click of the player applies to the       *)
(* position moves a piece of the player's colour, and every authority move *)
(* is applied only when the colour of the player's opponent is to move, so *)
(* that the moves of the history alternate between the two.                *)
(***************************************************************************)
C33_MovesAlternate ==
  [][/\ (last' # last /\ last'.op = "click"
          /\ last'.kind \in {"moved", "unsent"}) =>
          /\ chess.turn = playerColor
          /\ Len(chess'.hist) = Len(chess.hist) + 1
          /\ chess'.hist[Len(chess'.hist)].color = playerColor
     /\ (last' # last /\ last'.op \in {"settle", "initialize"}
          /\ last'.applied) =>
          /\ last'.op = "settle" => chess.turn # playerColor'
          /\ Len(chess'.hist) >= 1
          /\ chess'.hist[Len(chess'.hist)].color # playerColor'
     /\ \A i \in 1..(Len(chess'.hist) - 1) :
          chess'.hist[i].color # chess'.hist[i + 1].color]_vars

(***************************************************************************)
(* C34 (as claimed): after initialize with a known gameId, a configured    *)
(* service location and, if one is given to a session of black, an initial *)
(* authority move the engine applies, the error field is empty: no message *)
(* of an earlier session or of an earlier rejected move is carried over.   *)
(***************************************************************************)
C34_InitializeClearsError ==
  (/\ last.op = "initialize"
   /\ gameId # ""
   /\ Configured
   /\ last.kind = "engineMove" => last.applied) =>
    error = NoError

(***************************************************************************)
(* C35: issuing a move submission clears any previous error, so that after *)
(* a rejected move followed by an accepted move, whose response carries no *)
(* authority move or one the engine applies, the error field is empty (the *)
(* response being processed in the session that submitted the move).       *)
(***************************************************************************)
C35_SubmissionClearsError ==
  /\ (last.op = "click" /\ last.kind = "moved") => error = NoError
  /\ (SettledHere({"accepted"})
      /\ (last.response.move = Null \/ last.applied)) =>
       /\ last.pre.error = NoError
       /\ error = NoError

\* A move was rejected, the player moved again with the rejection's message
\* on display, and that move was accepted with an authority move applied.
C35_Witness ==
  /\ SettledHere({"accepted"})
  /\ last.applied
  /\ attempt.error = RejectedMessage
  /\ attempt.selectedSquare # Null
  /\ error = NoError

(***************************************************************************)
(* C36: initialize is idempotent: run twice in a row with the same gameId, *)
(* colour and initial authority move it leaves the position, the history,  *)
(* the last move, the selection with its candidate set and the status that *)
(* one run leaves; the initial authority move is not applied twice.  It is *)
(* run here from every reachable state with every value of the props, and  *)
(* again from the state each run of the effect has left.                   *)
(***************************************************************************)
C36_InitializeIdempotent ==
  /\ \A g \in GameIds, c \in {"w", "b"}, im \in InitialMoves :
       LET pr == [gameId |-> g, playerColor |-> c, initialEngineMove |-> im]
           once == InitializeEffect(State, pr, apiUrl)
           twice == InitializeEffect(once, pr, apiUrl)
       IN  /\ twice.chess = once.chess
           /\ twice.history = once.history
           /\ twice.lastMove = once.lastMove
           /\ twice.selectedSquare = once.selectedSquare
           /\ twice.availableTargets = once.availableTargets
           /\ twice.gameStatus = once.gameStatus
           /\ Len(twice.chess.hist) <= 1
  /\ last.op = "initialize" =>
       LET again == InitializeEffect(State, Props, apiUrl)
       IN  /\ again.chess = chess
           /\ again.history = history
           /\ again.lastMove = lastMove
           /\ again.selectedSquare = selectedSquare
           /\ again.availableTargets = availableTargets
           /\ again.gameStatus = gameStatus

\* The effect has run for a session of black and applied the initial
\* authority move; run again it leaves that one move.
C36_Witness ==
  /\ last.op = "initialize"
  /\ last.applied
  /\ playerColor = "b"
  /\ Len(chess.hist) = 1
  /\ Len(InitializeEffect(State, Props, apiUrl).chess.hist) = 1

(***************************************************************************)
(* C37: in every reachable state the candidate set is empty when no square *)
(* is selected, and is otherwise the set of destinations of the engine's   *)
(* legal moves from the selected square in the current position.           *)
(***************************************************************************)
C37_CandidateSet ==
  availableTargets =
    IF selectedSquare = Null
    THEN {}
    ELSE {m.to : m \in MovesFrom(chess, selectedSquare)}

\* A piece with destinations is selected after an authority move changed
\* the position.
C37_Witness ==
  /\ selectedSquare # Null
  /\ availableTargets # {}
  /\ Len(chess.hist) >= 2
  /\ last.op = "click"
  /\ last.kind = "select"

====
